---- MODULE Spec2Model ----
(***************************************************************************)
(* Model of the activity preprocessor (preprocessor.go) and of the TCX     *)
(* schema decoders (Application, Build, Device, Version UnmarshalXML).     *)
(*                                                                         *)
(* Go slices are 0-based; sequences here are 1-based, so Go index k is     *)
(* index k+1 here.  A Go pointer field (to float64, uint8, ...) is an      *)
(* optional value: Nil is the nil pointer, Ptr(v) a pointer to v.          *)
(* A float64 is modelled as an exact rational [n, d]; d = 0 is the result  *)
(* of a division by zero (+Inf, -Inf or NaN, by the sign of n).            *)
(***************************************************************************)
EXTENDS Integers, Sequences, FiniteSets, TLC

VARIABLES
    records,      \* the []*activity.Record under processing (the pointed-to records)
    input,        \* the records as they were passed in (never written)
    newRecords,   \* AggregateByTimestamp: the result slice, as indices into records
    i,            \* the running loop index of the stage in progress
    pc,           \* which stage is running / "done"
    options,      \* Preprocessor.options
    opts,         \* New: the options still to apply
    geo,          \* geo[k]: geomath.VincentyDistance between records k and k-1
    moving,       \* activity.IsConsideredMoving(sport, speed), per speed value
    counter,      \* SmoothingElev: Ptr(counter) of the last mean sum / counter computed
    divs,         \* CalculatePace: the divisions executed so far
    open,         \* xml.Decoder: the names of the elements open so far
    pos,          \* xml.Decoder: number of tokens read so far
    stack,        \* the active UnmarshalXML calls, innermost last
    ret,          \* Ptr(error and struct) of an UnmarshalXML that just returned
    result        \* Ptr(error and struct) the outermost UnmarshalXML returned

vars == <<records, input, newRecords, i, pc, options, opts, geo, moving,
          counter, divs, open, pos, stack, ret, result>>

-----------------------------------------------------------------------------
(* Bounds of the model *)

MaxLen == 3
MaxDistLen == 3
MaxElevLen == 3
MaxGradeLen == 3
MaxPaceLen == 3
MaxOpts == 2
MaxTokens == 4

-----------------------------------------------------------------------------
(* Pointers *)

Nil == <<>>
Ptr(v) == <<v>>
Deref(p) == p[1]

-----------------------------------------------------------------------------
(* float64 as exact rationals *)

Abs(x) == IF x < 0 THEN -x ELSE x

Sign(x) == IF x < 0 THEN -1 ELSE IF x > 0 THEN 1 ELSE 0

RECURSIVE GCD(_, _)
GCD(a, b) == IF b = 0 THEN a ELSE GCD(b, a % b)

\* n/d in lowest terms with a positive denominator; x/0 keeps only its sign
Quot(n, d) ==
    IF d = 0 THEN [n |-> Sign(n), d |-> 0]
    ELSE LET g == GCD(Abs(n), Abs(d))
             s == Sign(d)
         IN  [n |-> s * (n \div g), d |-> Abs(d) \div g]

F(k) == [n |-> k, d |-> 1]

FAdd(a, b) == Quot(a.n * b.d + b.n * a.d, a.d * b.d)
FSub(a, b) == Quot(a.n * b.d - b.n * a.d, a.d * b.d)
FMul(a, b) == Quot(a.n * b.n, a.d * b.d)
FDiv(a, b) == Quot(a.n * b.d, a.d * b.n)
FGt(a, b) == a.n * b.d > b.n * a.d
FIsZero(a) == a.n = 0 /\ a.d # 0

\* Go's T(x) for an integer type T: truncation toward zero
Trunc(a) == Sign(a.n) * (Abs(a.n) \div a.d)

-----------------------------------------------------------------------------
(* activity.Record *)

\* The optional fields AggregateByTimestamp averages, in the order it does
AvgFields == <<"Altitude", "Cadence", "Speed", "Distance", "HeartRate",
               "Power", "Temperature">>

\* The numeric type of each averaged field (T of avg[T])
FieldType ==
    [Altitude |-> "float64", Cadence |-> "uint8", Speed |-> "float64",
     Distance |-> "float64", HeartRate |-> "uint8", Power |-> "uint16",
     Temperature |-> "int8"]

\* A record with a timestamp (seconds; 0 is the zero time) and no other field
Record(ts) ==
    [Timestamp |-> ts, PositionLat |-> Nil, PositionLong |-> Nil,
     Altitude |-> Nil, Cadence |-> Nil, Speed |-> Nil, Distance |-> Nil,
     HeartRate |-> Nil, Power |-> Nil, Temperature |-> Nil,
     Grade |-> Nil, Pace |-> Nil]

-----------------------------------------------------------------------------
(* avg and AggregateByTimestamp *)

\* float64(*a) for a field of type T
ToFloat(T, v) == IF T = "float64" THEN v ELSE F(v)

\* T(x) for a float64 x
FromFloat(T, x) == IF T = "float64" THEN x ELSE Trunc(x)

\* avg without the averaging: the first present value wins
avgKeepsFirst(T, a, b) == IF a = Nil THEN b ELSE a

avg(T, a, b) ==
    IF a = Nil THEN b
    ELSE IF b # Nil
         THEN Ptr(FromFloat(T, FDiv(FAdd(ToFloat(T, Deref(a)),
                                         ToFloat(T, Deref(b))), F(2))))
         ELSE a

RECURSIVE AvgAll(_, _, _)
\* lines 86-92: rec.X = avg(rec.X, can.X) for the averaged fields from k on
AvgAll(rec, can, k) ==
    IF k > Len(AvgFields) THEN rec
    ELSE LET f == AvgFields[k]
         IN  AvgAll([rec EXCEPT ![f] = avg(FieldType[f], rec[f], can[f])],
                    can, k + 1)

\* the body of the loop over the candidates, for one candidate
Merge(rec, can) ==
    LET r1 == IF rec.PositionLat = Nil
              THEN [rec EXCEPT !.PositionLat = can.PositionLat] ELSE rec
        r2 == IF r1.PositionLong = Nil
              THEN [r1 EXCEPT !.PositionLong = can.PositionLong] ELSE r1
    IN  AvgAll(r2, can, 1)

RECURSIVE FirstDifferent(_, _, _)
\* the inner scan: the first j >= from whose timestamp differs from rec's,
\* Len(recs) + 1 when the scan runs off the end without a break
FirstDifferent(recs, rec, j) ==
    IF j > Len(recs) THEN j
    ELSE IF recs[j].Timestamp # rec.Timestamp THEN j
    ELSE FirstDifferent(recs, rec, j + 1)

\* the value of i after the inner scan: i = j - 1 is assigned only on break
IndexAfterScan(recs, idx, j) == IF j <= Len(recs) THEN j - 1 ELSE idx

RECURSIVE MergeCandidates(_, _, _, _)
\* rec after merging the candidates recs[from..to] in order
MergeCandidates(rec, recs, from, to) ==
    IF from > to THEN rec
    ELSE MergeCandidates(Merge(rec, recs[from]), recs, from + 1, to)

\* one iteration of the outer loop of AggregateByTimestamp
AggregateByTimestamp ==
    /\ pc = "AggregateByTimestamp"
    /\ i <= Len(records)
    /\ LET j == FirstDifferent(records, records[i], i + 1)
           rec == MergeCandidates(records[i], records, i + 1, j - 1)
       IN  /\ records' = [records EXCEPT ![i] = rec]
           /\ newRecords' = Append(newRecords, i)
           /\ i' = IndexAfterScan(records, i, j) + 1
    /\ UNCHANGED <<input, pc, options, opts, geo, moving, counter, divs,
                   open, pos, stack, ret, result>>

\* the loop is over: return newRecords
AggregateReturn ==
    /\ pc = "AggregateByTimestamp"
    /\ i > Len(records)
    /\ pc' = "done"
    /\ UNCHANGED <<records, input, newRecords, i, options, opts, geo, moving,
                   counter, divs, open, pos, stack, ret, result>>

\* the slice AggregateByTimestamp returns
Returned == [k \in 1..Len(newRecords) |-> records[newRecords[k]]]

-----------------------------------------------------------------------------
(* Inputs *)

\* timestamps of n records in non-decreasing order, starting at second 1
Timestamps(n) ==
    {ts \in [1..n -> 1..(n + 1)] :
        /\ n > 0 => ts[1] = 1
        /\ \A k \in 1..(n - 1) : ts[k + 1] \in {ts[k], ts[k] + 1}}

Opt(S) == {Nil} \cup {Ptr(v) : v \in S}

AltitudeValues == {F(10), F(20), F(30), F(100), F(102), F(104)}

\* the values one field group takes in the aggregator's inputs
GroupValues(g) ==
    CASE g = "Position" -> Opt({F(1), F(2)}) \X Opt({F(5), F(6)})
      [] g = "Altitude" -> Opt(AltitudeValues)
      [] g = "Temperature" -> Opt({-3, 0, 2})
      [] g \in {"Speed", "Distance"} -> Opt({F(1), F(2), F(4)})
      [] OTHER -> Opt({1, 2, 4})

Groups == {"Position"} \cup {AvgFields[k] : k \in 1..Len(AvgFields)}

WithGroup(rec, g, v) ==
    IF g = "Position"
    THEN [rec EXCEPT !.PositionLat = v[1], !.PositionLong = v[2]]
    ELSE [rec EXCEPT ![g] = v]

DefaultOptions == [smoothingElevDistance |-> F(30), calculateGradeDistance |-> F(100)]

\* the parts of the state a stage does not use
NoPreprocessor ==
    /\ records = <<>> /\ input = <<>> /\ newRecords = <<>> /\ i = 0
    /\ options = DefaultOptions /\ opts = <<>> /\ geo = <<>>
    /\ counter = Nil /\ divs = {}

NoDecoder ==
    /\ open = <<>> /\ pos = 0 /\ stack = <<>> /\ ret = Nil /\ result = Nil

InitAggregate ==
    /\ \E n \in 0..MaxLen : \E ts \in Timestamps(n) : \E g \in Groups :
         \E vs \in [1..n -> GroupValues(g)] :
            input = [k \in 1..n |-> WithGroup(Record(ts[k]), g, vs[k])]
    /\ records = input
    /\ newRecords = <<>>
    /\ i = 1
    /\ pc = "AggregateByTimestamp"
    /\ options = DefaultOptions /\ opts = <<>> /\ geo = <<>>
    /\ moving = <<>> /\ counter = Nil /\ divs = {}
    /\ NoDecoder

NextAggregate == AggregateByTimestamp \/ AggregateReturn

SpecAggregate == InitAggregate /\ [][NextAggregate]_vars

-----------------------------------------------------------------------------
(* Claims about AggregateByTimestamp *)

\* k is the first record of a maximal run of equal timestamps of the input
RunStart(k) == k = 1 \/ input[k].Timestamp # input[k - 1].Timestamp

RunStarts == {k \in 1..Len(input) : RunStart(k)}

\* the last record of the run that starts at s
RunEnd(s) ==
    CHOOSE e \in s..Len(input) :
        /\ \A k \in s..e : input[k].Timestamp = input[s].Timestamp
        /\ e < Len(input) => input[e + 1].Timestamp # input[s].Timestamp

\* C1: for an input ordered by timestamp the result holds exactly one record
\* per maximal run of equal timestamps (a run reaching the end of the input
\* included), that record is the first of its run, and the runs keep their
\* order; so the result is as long as there are runs.
C1_OneRecordPerRun ==
    pc = "done" =>
        /\ Len(newRecords) = Cardinality(RunStarts)
        /\ \A k \in 1..Len(newRecords) : newRecords[k] \in RunStarts
        /\ \A k, l \in 1..Len(newRecords) :
               k < l => newRecords[k] < newRecords[l]

C4Input == [k \in 1..3 |-> [Record(1) EXCEPT !.Altitude = Ptr(F(98 + 2 * k))]]

\* C4: three records of one timestamp, no distance, altitudes 100, 102, 104
\* aggregate to exactly one record, of altitude 102.
C4_ThreeRecordsToOne ==
    (pc = "done" /\ input = C4Input) =>
        /\ Len(Returned) = 1
        /\ Returned[1].Altitude = Ptr(F(102))

\* the mean of two present values in the numeric type of field f
MeanOf(f, x, y) ==
    IF FieldType[f] = "float64"
    THEN Quot(x.n * y.d + y.n * x.d, 2 * x.d * y.d)
    ELSE IF x + y >= 0 THEN (x + y) \div 2 ELSE -((-(x + y)) \div 2)

\* avg as the claim states it
AvgOf(f, a, b) ==
    CASE a = Nil /\ b = Nil -> Nil
      [] a = Nil /\ b # Nil -> b
      [] a # Nil /\ b = Nil -> a
      [] OTHER -> Ptr(MeanOf(f, Deref(a), Deref(b)))

RECURSIVE FoldOf(_, _, _)
\* avg(...avg(avg(r_s.f, r_s+1.f), r_s+2.f)..., r_e.f) over the input
FoldOf(f, s, e) ==
    IF e = s THEN input[s][f] ELSE AvgOf(f, FoldOf(f, s, e - 1), input[e][f])

\* the first present value of field f in input[s..e], Nil when there is none
FirstPresent(f, s, e) ==
    IF \E k \in s..e : input[k][f] # Nil
    THEN input[CHOOSE k \in s..e :
                  /\ input[k][f] # Nil
                  /\ \A m \in s..(k - 1) : input[m][f] = Nil][f]
    ELSE Nil

\* C8: after AggregateByTimestamp the first record of every run holds, for
\* each averaged field, the left-to-right fold of avg over the run, and for
\* PositionLat and PositionLong the first present value of the run.
C8_FirstOfRunHoldsFold ==
    pc = "done" =>
        \A s \in RunStarts :
            /\ \A k \in 1..Len(AvgFields) :
                   records[s][AvgFields[k]] = FoldOf(AvgFields[k], s, RunEnd(s))
            /\ records[s].PositionLat = FirstPresent("PositionLat", s, RunEnd(s))
            /\ records[s].PositionLong = FirstPresent("PositionLong", s, RunEnd(s))

\* a run of altitudes 10, 20, 30 has been aggregated: 22.5, not 20
C8_Witness ==
    /\ pc = "done"
    /\ Len(input) = 3
    /\ RunEnd(1) = 3
    /\ \A k \in 1..3 : input[k].Altitude = Ptr(F(10 * k))
    /\ records[1].Altitude = Ptr(Quot(45, 2))

-----------------------------------------------------------------------------
(* CalculateDistanceAndSpeed *)

\* geomath.VincentyDistance between the coordinates of records k and k - 1
VincentyDistance(k) == geo[k]

HasPosition(rec) == rec.PositionLat # Nil /\ rec.PositionLong # Nil

\* lines 108-129: the point distance of rec to prev (rec.Distance as on entry)
PointDistance(rec, prev, k) ==
    IF rec.Distance = Nil
    THEN IF HasPosition(rec) /\ HasPosition(prev)
         THEN VincentyDistance(k) ELSE F(0)
    ELSE IF rec.Distance # Nil /\ prev.Distance # Nil
         THEN FSub(Deref(rec.Distance), Deref(prev.Distance))
         ELSE F(0)

\* lines 109-126: rec.Distance after the distance part
DistanceOf(rec, prev, k) ==
    IF rec.Distance = Nil /\ HasPosition(rec) /\ HasPosition(prev)
    THEN LET prevDist == IF prev.Distance # Nil THEN Deref(prev.Distance) ELSE F(0)
         IN  Ptr(FAdd(prevDist, VincentyDistance(k)))
    ELSE rec.Distance

\* the speed part without the check of the elapsed time
SpeedOfAnyElapsed(rec, prev, pointDistance) ==
    IF rec.Speed = Nil /\ FGt(pointDistance, F(0))
    THEN Ptr(FDiv(pointDistance, F(rec.Timestamp - prev.Timestamp)))
    ELSE rec.Speed

\* lines 132-138: rec.Speed after the speed part
SpeedOf(rec, prev, pointDistance) ==
    IF rec.Speed = Nil /\ FGt(pointDistance, F(0))
    THEN LET elapsed == F(rec.Timestamp - prev.Timestamp)
         IN  IF FGt(elapsed, F(0)) THEN Ptr(FDiv(pointDistance, elapsed))
             ELSE rec.Speed
    ELSE rec.Speed

\* one iteration of the loop of CalculateDistanceAndSpeed
CalculateDistanceAndSpeed ==
    /\ pc = "CalculateDistanceAndSpeed"
    /\ i <= Len(records)
    /\ LET rec == records[i]
           prev == records[i - 1]
           pointDistance == PointDistance(rec, prev, i)
       IN  records' = [records EXCEPT
                          ![i].Distance = DistanceOf(rec, prev, i),
                          ![i].Speed = SpeedOf(rec, prev, pointDistance)]
    /\ i' = i + 1
    /\ UNCHANGED <<input, newRecords, pc, options, opts, geo, moving, counter,
                   divs, open, pos, stack, ret, result>>

\* the loop is over: the stage returns
StageReturn ==
    /\ pc \in {"CalculateDistanceAndSpeed", "SmoothingElev", "CalculateGrade",
               "CalculatePace"}
    /\ i > Len(records)
    /\ pc' = "done"
    /\ UNCHANGED <<records, input, newRecords, i, options, opts, geo, moving,
                   counter, divs, open, pos, stack, ret, result>>

\* timestamps of n records in non-decreasing order, each 0 or 2 seconds
\* after the one before it
StepTimestamps(n) ==
    {ts \in [1..n -> 1..(2 * n)] :
        /\ n > 0 => ts[1] = 1
        /\ \A k \in 1..(n - 1) : ts[k + 1] - ts[k] \in {0, 2}}

PositionValues == {<<Nil, Nil>>, <<Ptr(F(1)), Ptr(F(5))>>}

GeoValues == {F(0), F(7)}

InitDistance ==
    /\ \E n \in 0..MaxDistLen : \E ts \in StepTimestamps(n) :
         \E ps \in [1..n -> PositionValues] :
         \E ds \in [1..n -> Opt({F(0), F(5)})] :
         \E ss \in [1..n -> Opt({F(3)})] :
            /\ input = [k \in 1..n |->
                           [Record(ts[k]) EXCEPT !.PositionLat = ps[k][1],
                                                 !.PositionLong = ps[k][2],
                                                 !.Distance = ds[k],
                                                 !.Speed = ss[k]]]
            /\ geo \in [1..n -> GeoValues]
            /\ \A k \in 1..n :
                  (k = 1 \/ ~HasPosition(input[k]) \/ ~HasPosition(input[k - 1]))
                      => geo[k] = F(0)
    /\ records = input
    /\ newRecords = <<>>
    /\ i = 2
    /\ pc = "CalculateDistanceAndSpeed"
    /\ options = DefaultOptions /\ opts = <<>>
    /\ moving = <<>> /\ counter = Nil /\ divs = {}
    /\ NoDecoder

NextDistance == CalculateDistanceAndSpeed \/ StageReturn

SpecDistance == InitDistance /\ [][NextDistance]_vars

-----------------------------------------------------------------------------
(* Claims about CalculateDistanceAndSpeed *)

\* the distances present in a sequence never decrease in index order
NonDecreasing(recs) ==
    \A a, b \in 1..Len(recs) :
        (a < b /\ recs[a].Distance # Nil /\ recs[b].Distance # Nil)
            => ~FGt(Deref(recs[a].Distance), Deref(recs[b].Distance))

\* C2: when every record has both coordinates and the distances present on
\* input never decrease, the distances present after
\* CalculateDistanceAndSpeed never decrease in index order.
C2_DistanceNonDecreasing ==
    (/\ pc = "done"
     /\ \A k \in 1..Len(input) : HasPosition(input[k])
     /\ NonDecreasing(input))
        => NonDecreasing(records)

\* the point delta of record k as C7 states it: presence is taken when record
\* k is processed, that is Distance[k] as on input and Distance[k-1] as the
\* stage left it
PointDelta(k) ==
    IF input[k].Distance = Nil
    THEN IF HasPosition(input[k]) /\ HasPosition(input[k - 1])
         THEN geo[k] ELSE F(0)
    ELSE IF records[k - 1].Distance # Nil
         THEN FSub(Deref(input[k].Distance), Deref(records[k - 1].Distance))
         ELSE F(0)

Elapsed(k) == input[k].Timestamp - input[k - 1].Timestamp

\* C7: for every record k processed so far (k > 1), Speed[k] has been written
\* iff it was absent on input, the point delta is > 0 and the timestamp delta
\* is > 0, and then it is pointDelta / elapsed; a Distance or Speed present
\* on input is never changed and the first record is never changed.
C7_SpeedWrittenIff ==
    pc \in {"CalculateDistanceAndSpeed", "done"} =>
        /\ \A k \in 2..(i - 1) :
              LET written == records[k].Speed # input[k].Speed
                  due == /\ input[k].Speed = Nil
                         /\ PointDelta(k).n > 0
                         /\ Elapsed(k) > 0
              IN  /\ written <=> due
                  /\ due => records[k].Speed =
                               Ptr(Quot(PointDelta(k).n, PointDelta(k).d * Elapsed(k)))
        /\ \A k \in 1..Len(input) :
              /\ input[k].Distance # Nil => records[k].Distance = input[k].Distance
              /\ input[k].Speed # Nil => records[k].Speed = input[k].Speed
        /\ Len(input) > 0 => records[1] = input[1]

\* a speed written from a distance present on input and the distance the
\* stage computed for the record before it, which itself got no speed
C7_Witness ==
    /\ pc = "done"
    /\ Len(input) = 3
    /\ input[2].Distance = Nil /\ records[2].Distance = Ptr(F(0))
    /\ input[2].Speed = Nil /\ records[2].Speed = Nil
    /\ input[3].Distance = Ptr(F(5)) /\ input[3].Speed = Nil
    /\ records[3].Speed = Ptr(Quot(5, 2))

-----------------------------------------------------------------------------
(* Options and New *)

\* the option without its check of d
SmoothingDistanceUnchecked(o, d) == [o EXCEPT !.smoothingElevDistance = d]

\* the option WithSmoothingElevationDistance(d), applied to o
WithSmoothingElevationDistance(o, d) ==
    IF FGt(d, F(0)) THEN [o EXCEPT !.smoothingElevDistance = d] ELSE o

\* the option WithCalculateDistance(d), applied to o
WithCalculateDistance(o, d) ==
    IF FGt(d, F(0)) THEN [o EXCEPT !.calculateGradeDistance = d] ELSE o

\* opts[i].apply(options)
Apply(opt, o) ==
    IF opt.name = "WithSmoothingElevationDistance"
    THEN WithSmoothingElevationDistance(o, opt.d)
    ELSE WithCalculateDistance(o, opt.d)

\* one iteration of the loop of New
New ==
    /\ pc = "New"
    /\ opts # <<>>
    /\ options' = Apply(Head(opts), options)
    /\ opts' = Tail(opts)
    /\ UNCHANGED <<records, input, newRecords, i, pc, geo, moving, counter,
                   divs, open, pos, stack, ret, result>>

OptionValues ==
    [name : {"WithSmoothingElevationDistance", "WithCalculateDistance"},
     d : {F(-5), F(0), F(10)}]

InitNew ==
    /\ pc = "New"
    /\ options = DefaultOptions
    /\ \E n \in 0..MaxOpts : opts \in [1..n -> OptionValues]
    /\ records = <<>> /\ input = <<>> /\ newRecords = <<>> /\ i = 0
    /\ geo = <<>> /\ moving = <<>> /\ counter = Nil /\ divs = {}
    /\ NoDecoder

-----------------------------------------------------------------------------
(* SmoothingElev *)

HasDistanceAndAltitude(rec) == rec.Distance # Nil /\ rec.Altitude # Nil

RECURSIVE WindowEndsAtMissing(_, _, _, _)
\* the scan with a record without distance or altitude ending it
WindowEndsAtMissing(recs, rec, j, thr) ==
    IF j < 1 THEN [sum |-> F(0), counter |-> 0]
    ELSE LET prev == recs[j]
         IN  IF ~HasDistanceAndAltitude(prev) THEN [sum |-> F(0), counter |-> 0]
             ELSE IF FGt(FSub(Deref(rec.Distance), Deref(prev.Distance)), thr)
                  THEN [sum |-> F(0), counter |-> 0]
                  ELSE LET w == WindowEndsAtMissing(recs, rec, j - 1, thr)
                       IN  [sum |-> FAdd(Deref(prev.Altitude), w.sum),
                            counter |-> w.counter + 1]

RECURSIVE Window(_, _, _, _)
\* lines 150-163: sum and counter of the scan from index j down to the first
\* record; a record without distance or altitude is skipped, the first
\* record farther than thr from rec ends the scan
Window(recs, rec, j, thr) ==
    IF j < 1 THEN [sum |-> F(0), counter |-> 0]
    ELSE LET prev == recs[j]
         IN  IF ~HasDistanceAndAltitude(prev) THEN Window(recs, rec, j - 1, thr)
             ELSE IF FGt(FSub(Deref(rec.Distance), Deref(prev.Distance)), thr)
                  THEN [sum |-> F(0), counter |-> 0]
                  ELSE LET w == Window(recs, rec, j - 1, thr)
                       IN  [sum |-> FAdd(Deref(prev.Altitude), w.sum),
                            counter |-> w.counter + 1]

\* the preprocessor is built: SmoothingElev is called on some records
CallSmoothingElev ==
    /\ pc = "New"
    /\ opts = <<>>
    /\ pc' = "SmoothingElev"
    /\ \E n \in 0..MaxElevLen :
         \E ds \in [1..n -> Opt({F(0), F(20), F(40)})] :
         \E as \in [1..n -> Opt({F(10), F(40)})] :
            input' = [k \in 1..n |->
                         [Record(k) EXCEPT !.Distance = ds[k], !.Altitude = as[k]]]
    /\ records' = input'
    /\ i' = 1
    /\ UNCHANGED <<newRecords, options, opts, geo, moving, counter, divs,
                   open, pos, stack, ret, result>>

\* one iteration of the loop of SmoothingElev
SmoothingElev ==
    /\ pc = "SmoothingElev"
    /\ i <= Len(records)
    /\ IF ~HasDistanceAndAltitude(records[i])
       THEN UNCHANGED <<records, counter>>
       ELSE LET w == Window(records, records[i], i, options.smoothingElevDistance)
            IN  /\ records' = [records EXCEPT
                                  ![i].Altitude = Ptr(FDiv(w.sum, F(w.counter)))]
                /\ counter' = Ptr(w.counter)
    /\ i' = i + 1
    /\ UNCHANGED <<input, newRecords, pc, options, opts, geo, moving, divs,
                   open, pos, stack, ret, result>>

NextSmoothing == New \/ CallSmoothingElev \/ SmoothingElev \/ StageReturn

SpecSmoothing == InitNew /\ [][NextSmoothing]_vars

-----------------------------------------------------------------------------
(* Claims about New and SmoothingElev *)

\* record j lies in the backward window of record k: both fields present and
\* no record from j to k with both fields present is farther than the
\* threshold from k
InWindow(k, j) ==
    /\ j \in 1..k
    /\ HasDistanceAndAltitude(input[j])
    /\ \A m \in j..k :
          HasDistanceAndAltitude(input[m]) =>
              ~FGt(FSub(Deref(input[k].Distance), Deref(input[m].Distance)),
                   options.smoothingElevDistance)

WindowOf(k) == {j \in 1..k : InWindow(k, j)}

RECURSIVE SumOver(_, _)
SumOver(alt, S) ==
    IF S = {} THEN F(0)
    ELSE LET x == CHOOSE x \in S : TRUE
         IN  FAdd(alt[x], SumOver(alt, S \ {x}))

MeanOver(alt, S) == FDiv(SumOver(alt, S), F(Cardinality(S)))

\* C3 as stated: the altitude of every smoothed record is the mean of the
\* ORIGINAL altitudes of the records of its backward window.
C3_MeanOfOriginalAltitudes ==
    pc \in {"SmoothingElev", "done"} =>
        \A k \in 1..(i - 1) :
            HasDistanceAndAltitude(input[k]) =>
                records[k].Altitude =
                    Ptr(MeanOver([j \in WindowOf(k) |-> Deref(input[j].Altitude)],
                                 WindowOf(k)))

\* C3, amended: the altitude of every smoothed record k is the mean of the
\* altitudes of the records of its backward window as they stand when k is
\* processed: the original altitude of k itself and the already smoothed
\* altitudes of the records before it; no record after k enters it.
C3_MeanOfCurrentAltitudes ==
    pc \in {"SmoothingElev", "done"} =>
        \A k \in 1..(i - 1) :
            HasDistanceAndAltitude(input[k]) =>
                records[k].Altitude =
                    Ptr(MeanOver([j \in WindowOf(k) |->
                                     IF j = k THEN Deref(input[j].Altitude)
                                     ELSE Deref(records[j].Altitude)],
                                 WindowOf(k)))

\* three records within one window, the second already changed by its own
\* smoothing when the third is smoothed
C3_Witness ==
    /\ pc = "done"
    /\ Len(input) = 3
    /\ \A m \in 1..3 : HasDistanceAndAltitude(input[m])
    /\ WindowOf(3) = {1, 2, 3}
    /\ records[2].Altitude # input[2].Altitude
    /\ records[3].Altitude # input[3].Altitude

\* both windows are > 0 and the counter of the last mean is at least 1
WindowsPositive ==
    /\ FGt(options.smoothingElevDistance, F(0))
    /\ FGt(options.calculateGradeDistance, F(0))
    /\ counter # Nil => Deref(counter) >= 1

\* C10: whatever options New is given, in any order, both window distances
\* are > 0 (an option with a value <= 0 leaves the options as they are), and
\* so every mean SmoothingElev computes has a counter of at least 1.
C10_WindowsPositiveCounterAtLeastOne ==
    /\ []WindowsPositive
    /\ [][(pc = "New" /\ opts # <<>> /\ ~FGt(Head(opts).d, F(0)))
             => options' = options]_vars

\* a window set by an option, and a mean over the record alone because the
\* record before it is farther away than the window
C10_Witness ==
    /\ pc = "done"
    /\ options.smoothingElevDistance = F(10)
    /\ Len(input) = 2
    /\ HasDistanceAndAltitude(input[1])
    /\ HasDistanceAndAltitude(input[2])
    /\ counter = Ptr(1)

-----------------------------------------------------------------------------
(* CalculateGrade *)

RECURSIVE ScanAssignsFirst(_, _, _, _, _)
\* the forward scan with rise and run assigned before the window check
ScanAssignsFirst(recs, rec, j, thr, acc) ==
    IF j > Len(recs) THEN acc
    ELSE LET next == recs[j]
         IN  IF ~HasDistanceAndAltitude(next)
             THEN ScanAssignsFirst(recs, rec, j + 1, thr, acc)
             ELSE LET d == FSub(Deref(next.Distance), Deref(rec.Distance))
                      new == [rise |-> FSub(Deref(next.Altitude), Deref(rec.Altitude)),
                              run |-> d]
                  IN  IF FGt(d, thr) THEN new
                      ELSE ScanAssignsFirst(recs, rec, j + 1, thr, new)

RECURSIVE Scan(_, _, _, _, _)
\* lines 178-191: rise and run after the forward scan from index j on, acc
\* being their values so far
Scan(recs, rec, j, thr, acc) ==
    IF j > Len(recs) THEN acc
    ELSE LET next == recs[j]
         IN  IF ~HasDistanceAndAltitude(next)
             THEN Scan(recs, rec, j + 1, thr, acc)
             ELSE LET d == FSub(Deref(next.Distance), Deref(rec.Distance))
                  IN  IF FGt(d, thr) THEN acc
                      ELSE Scan(recs, rec, j + 1, thr,
                                [rise |-> FSub(Deref(next.Altitude),
                                               Deref(rec.Altitude)),
                                 run |-> d])

\* lines 193-199: rec.Grade after the scan
GradeOf(rec, acc) ==
    IF FIsZero(acc.rise) \/ FIsZero(acc.run) THEN rec.Grade
    ELSE Ptr(FMul(FDiv(acc.rise, acc.run), F(100)))

\* the preprocessor is built: CalculateGrade is called on some records
CallCalculateGrade ==
    /\ pc = "New"
    /\ opts = <<>>
    /\ pc' = "CalculateGrade"
    /\ \E n \in 0..MaxGradeLen :
         \E ds \in [1..n -> Opt({F(0), F(50), F(120)})] :
         \E as \in [1..n -> Opt({F(10), F(40)})] :
         \E g \in Opt({F(1)}) :
            input' = [k \in 1..n |->
                         [Record(k) EXCEPT !.Distance = ds[k], !.Altitude = as[k],
                                           !.Grade = g]]
    /\ records' = input'
    /\ i' = 1
    /\ UNCHANGED <<newRecords, options, opts, geo, moving, counter, divs,
                   open, pos, stack, ret, result>>

\* one iteration of the loop of CalculateGrade
CalculateGrade ==
    /\ pc = "CalculateGrade"
    /\ i <= Len(records)
    /\ IF ~HasDistanceAndAltitude(records[i])
       THEN UNCHANGED records
       ELSE LET acc == Scan(records, records[i], i + 1,
                            options.calculateGradeDistance,
                            [rise |-> F(0), run |-> F(0)])
            IN  records' = [records EXCEPT ![i].Grade = GradeOf(records[i], acc)]
    /\ i' = i + 1
    /\ UNCHANGED <<input, newRecords, pc, options, opts, geo, moving, counter,
                   divs, open, pos, stack, ret, result>>

NextGrade == New \/ CallCalculateGrade \/ CalculateGrade \/ StageReturn

SpecGrade == InitNew /\ [][NextGrade]_vars

-----------------------------------------------------------------------------
(* Claims about CalculateGrade *)

\* every record from k + 1 to j is within the grade window of record k
WithinGradeWindow(k, j) ==
    \A m \in (k + 1)..j :
        ~FGt(FSub(Deref(input[m].Distance), Deref(input[k].Distance)),
             options.calculateGradeDistance)

\* the indices j > k such that all of k+1..j are within the window of k
Candidates(k) == {j \in (k + 1)..Len(input) : WithinGradeWindow(k, j)}

Last(S) == CHOOSE j \in S : \A m \in S : m <= j

\* C5: for every record k processed so far that has Distance and Altitude,
\* all records after it having both too: with K the last record such that
\* every record of k+1..K is within the grade window of k, Grade[k] is
\* (Altitude[K]-Altitude[k]) / (Distance[K]-Distance[k]) * 100 when K
\* exists and both differences are non-zero, and is left as it was otherwise.
C5_GradeFromLastInWindow ==
    pc \in {"CalculateGrade", "done"} =>
        \A k \in 1..(i - 1) :
            (\A m \in k..Len(input) : HasDistanceAndAltitude(input[m])) =>
                LET rise == FSub(Deref(input[Last(Candidates(k))].Altitude),
                                 Deref(input[k].Altitude))
                    run == FSub(Deref(input[Last(Candidates(k))].Distance),
                                Deref(input[k].Distance))
                IN  IF Candidates(k) # {} /\ rise.n # 0 /\ run.n # 0
                    THEN records[k].Grade =
                             Ptr(Quot(rise.n * run.d * 100, rise.d * run.n))
                    ELSE records[k].Grade = input[k].Grade

\* the first record got its grade from the second, the third being beyond
\* the window: (40 - 10) / (50 - 0) * 100 = 60
C5_Witness ==
    /\ pc = "done"
    /\ Len(input) = 3
    /\ \A m \in 1..3 : HasDistanceAndAltitude(input[m])
    /\ Candidates(1) = {2}
    /\ input[1].Grade # Nil
    /\ records[1].Grade = Ptr(F(60))
    /\ records[3].Grade = input[3].Grade

-----------------------------------------------------------------------------
(* CalculatePace *)

\* time.Time.IsZero
IsZero(ts) == ts = 0

\* activity.IsConsideredMoving(sport, speed), for the sport of the call
IsConsideredMoving(speed) == moving[speed]

\* line 209-212: the record is skipped for a missing distance or timestamp
Skipped(rec, prev) ==
    \/ rec.Distance = Nil \/ IsZero(rec.Timestamp)
    \/ prev.Distance = Nil \/ IsZero(prev.Timestamp)

\* lines 218-229: the division CalculatePace executes for rec, if any:
\* Nil, or Ptr of the path taken, the denominator and the elapsed seconds
PaceDivision(rec, prev) ==
    IF rec.Speed = Nil
    THEN LET pointDistance == FSub(Deref(rec.Distance), Deref(prev.Distance))
             elapsed == F(rec.Timestamp - prev.Timestamp)
             pointDistanceInKM == FDiv(pointDistance, F(1000))
         IN  IF FIsZero(pointDistanceInKM) THEN Nil
             ELSE Ptr([path |-> "distance", den |-> pointDistanceInKM,
                       num |-> elapsed, elapsed |-> elapsed])
    ELSE LET speedkph == FMul(Deref(rec.Speed), Quot(36, 10))
         IN  Ptr([path |-> "speed", den |-> speedkph, num |-> F(1),
                  elapsed |-> F(rec.Timestamp - prev.Timestamp)])

\* lines 225 and 228: the pace a division yields
PaceOf(div) ==
    IF div.path = "distance" THEN FDiv(div.num, div.den)
    ELSE FMul(FMul(FDiv(div.num, div.den), F(60)), F(60))

\* one iteration of the loop of CalculatePace
CalculatePace ==
    /\ pc = "CalculatePace"
    /\ i <= Len(records)
    /\ LET rec == records[i]
           prev == records[i - 1]
       IN  IF Skipped(rec, prev) \/ ~IsConsideredMoving(rec.Speed)
           THEN UNCHANGED <<records, divs>>
           ELSE LET div == PaceDivision(rec, prev)
                IN  IF div = Nil THEN UNCHANGED <<records, divs>>
                    ELSE /\ records' = [records EXCEPT
                                           ![i].Pace = Ptr(PaceOf(Deref(div)))]
                         /\ divs' = divs \cup {[k |-> i] @@ Deref(div)}
    /\ i' = i + 1
    /\ UNCHANGED <<input, newRecords, pc, options, opts, geo, moving, counter,
                   open, pos, stack, ret, result>>

\* timestamps of n records in non-decreasing order, each 0 or 2 seconds
\* after the one before it, the first one the zero time or second 1
PaceTimestamps(n) ==
    {ts \in [1..n -> 0..(2 * n)] :
        /\ n > 0 => ts[1] \in {0, 1}
        /\ \A k \in 1..(n - 1) : ts[k + 1] - ts[k] \in {0, 2}}

SpeedValues == Opt({F(0), F(10)})

InitPace ==
    /\ \E n \in 0..MaxPaceLen : \E ts \in PaceTimestamps(n) :
         \E ds \in [1..n -> Opt({F(0), F(1000), F(3000)})] :
         \E ss \in [1..n -> SpeedValues] :
            input = [k \in 1..n |->
                        [Record(ts[k]) EXCEPT !.Distance = ds[k], !.Speed = ss[k]]]
    /\ moving \in [SpeedValues -> BOOLEAN]
    /\ records = input
    /\ newRecords = <<>>
    /\ i = 2
    /\ pc = "CalculatePace"
    /\ options = DefaultOptions /\ opts = <<>> /\ geo = <<>>
    /\ counter = Nil /\ divs = {}
    /\ NoDecoder

NextPace == CalculatePace \/ StageReturn

SpecPace == InitPace /\ [][NextPace]_vars

-----------------------------------------------------------------------------
(* Claims about CalculatePace *)

\* C6: for record sequences of non-decreasing timestamps and any result of
\* IsConsideredMoving, CalculatePace never divides by zero and assigns a pace
\* only when the denominator (the km-delta on the distance path, Speed * 3.6
\* on the speed path) is > 0 and, on the distance path, the elapsed time is
\* > 0.
C6_PaceOnlyFromPositive ==
    \A div \in divs :
        /\ div.den.n > 0
        /\ div.path = "distance" => div.elapsed.n > 0


-----------------------------------------------------------------------------
(* The schema decoders: Application, Build, Device, Version UnmarshalXML *)

\* character data: a string of decimal digits, by its value hi * 2^16 + lo
\* (TLC's integers end at 2^31 - 1), or another string
Digits(hi, lo) == [digits |-> TRUE, hi |-> hi, lo |-> lo]
EmptyText == [digits |-> FALSE, hi |-> 0, lo |-> 0]
OtherText == [digits |-> FALSE, hi |-> 0, lo |-> 1]

\* an unsigned number, as hi * 2^16 + lo
Num(hi, lo) == [hi |-> hi, lo |-> lo]

NoError == [kind |-> "nil", at |-> 0]

RECURSIVE Pow2(_)
Pow2(w) == IF w = 0 THEN 1 ELSE 2 * Pow2(w - 1)

\* strconv.ParseUint(text, 10, bitSize) for bitSize 16 or 32, the error
\* tagged with the number of tokens read when it arose
ParseUint(text, bitSize, at) ==
    IF ~text.digits
    THEN [u |-> Num(0, 0), err |-> [kind |-> "ErrSyntax", at |-> at]]
    ELSE IF text.hi >= Pow2(bitSize - 16)
         THEN [u |-> Num(Pow2(bitSize - 16) - 1, Pow2(16) - 1),
               err |-> [kind |-> "ErrRange", at |-> at]]
         ELSE [u |-> Num(text.hi, text.lo), err |-> NoError]

\* the zero value of each structure
Zero(struct) ==
    CASE struct = "Version" ->
             [VersionMajor |-> Num(0, 0), VersionMinor |-> Num(0, 0),
              BuildMajor |-> Num(0, 0), BuildMinor |-> Num(0, 0)]
      [] struct = "Device" ->
             [Name |-> EmptyText, UnitId |-> Num(0, 0), ProductID |-> Num(0, 0),
              Version |-> Nil]
      [] struct = "Build" -> [Type |-> EmptyText, Version |-> Nil]
      [] struct = "Application" ->
             [Name |-> EmptyText, Build |-> Nil, LangID |-> EmptyText,
              PartNumber |-> EmptyText]

\* a call of struct.UnmarshalXML(dec, se) at the top of its loop
Frame(struct, se) ==
    [struct |-> struct, se |-> se, targetCharData |-> "", value |-> Zero(struct)]

\* what one iteration of a decoder's loop does
Continue(f) == [kind |-> "continue", frame |-> f]
ReturnErr(err) == [kind |-> "return", err |-> err]
Call(f, struct, se) == [kind |-> "call", frame |-> f, callee |-> Frame(struct, se)]

\* a numeric field: parse the text in the field's width, return the error or
\* store the number
NumericField(f, field, bitSize, text, at) ==
    LET r == ParseUint(text, bitSize, at)
    IN  IF r.err # NoError THEN ReturnErr(r.err)
        ELSE Continue([f EXCEPT !.value[field] = r.u, !.targetCharData = ""])

StringField(f, field, text) ==
    Continue([f EXCEPT !.value[field] = text, !.targetCharData = ""])

\* case xml.EndElement of every decoder
EndElement(f, tok) ==
    IF tok.name = f.se THEN ReturnErr(NoError) ELSE Continue(f)

\* Version.UnmarshalXML: the loop body for token tok
VersionUnmarshalXML(f, tok, at) ==
    CASE tok.type = "StartElement" -> Continue([f EXCEPT !.targetCharData = tok.name])
      [] tok.type = "CharData" ->
             IF f.targetCharData \in {"VersionMajor", "VersionMinor",
                                      "BuildMajor", "BuildMinor"}
             THEN NumericField(f, f.targetCharData, 16, tok.text, at)
             ELSE Continue([f EXCEPT !.targetCharData = ""])
      [] tok.type = "EndElement" -> EndElement(f, tok)

\* Device.UnmarshalXML: the loop body for token tok
DeviceUnmarshalXML(f, tok, at) ==
    CASE tok.type = "StartElement" ->
             IF tok.name = "Version" THEN Call(f, "Version", tok.name)
             ELSE Continue([f EXCEPT !.targetCharData = tok.name])
      [] tok.type = "CharData" ->
             CASE f.targetCharData = "Name" -> StringField(f, "Name", tok.text)
               [] f.targetCharData = "UnitId" ->
                      NumericField(f, "UnitId", 32, tok.text, at)
               [] f.targetCharData = "ProductID" ->
                      NumericField(f, "ProductID", 16, tok.text, at)
               [] OTHER -> Continue([f EXCEPT !.targetCharData = ""])
      [] tok.type = "EndElement" -> EndElement(f, tok)

\* Build.UnmarshalXML: the loop body for token tok
BuildUnmarshalXML(f, tok, at) ==
    CASE tok.type = "StartElement" ->
             IF tok.name = "Version" THEN Call(f, "Version", tok.name)
             ELSE Continue([f EXCEPT !.targetCharData = tok.name])
      [] tok.type = "CharData" ->
             IF f.targetCharData = "Type" THEN StringField(f, "Type", tok.text)
             ELSE Continue([f EXCEPT !.targetCharData = ""])
      [] tok.type = "EndElement" -> EndElement(f, tok)

\* Application.UnmarshalXML: the loop body for token tok
ApplicationUnmarshalXML(f, tok, at) ==
    CASE tok.type = "StartElement" ->
             IF tok.name = "Build" THEN Call(f, "Build", tok.name)
             ELSE Continue([f EXCEPT !.targetCharData = tok.name])
      [] tok.type = "CharData" ->
             IF f.targetCharData \in {"Name", "LangID", "PartNumber"}
             THEN StringField(f, f.targetCharData, tok.text)
             ELSE Continue([f EXCEPT !.targetCharData = ""])
      [] tok.type = "EndElement" -> EndElement(f, tok)

UnmarshalXML(f, tok, at) ==
    CASE f.struct = "Version" -> VersionUnmarshalXML(f, tok, at)
      [] f.struct = "Device" -> DeviceUnmarshalXML(f, tok, at)
      [] f.struct = "Build" -> BuildUnmarshalXML(f, tok, at)
      [] f.struct = "Application" -> ApplicationUnmarshalXML(f, tok, at)

\* the nested call is ignored when it fails: the structure is stored anyway
\* and the loop goes on
AfterCallIgnoringError(f, callee, value, err) ==
    Continue([f EXCEPT !.value[callee] = Ptr(value)])

\* the caller after its nested callee.UnmarshalXML returned value and err:
\* "if err != nil { return err }", then the structure is stored
AfterCall(f, callee, value, err) ==
    IF err # NoError THEN ReturnErr(err)
    ELSE Continue([f EXCEPT !.value[callee] = Ptr(value)])

Top == stack[Len(stack)]
Pop == SubSeq(stack, 1, Len(stack) - 1)

\* the tokens a well-formed stream may hold next
ElementNames ==
    {"Build", "Version", "VersionMajor", "BuildMinor", "UnitId", "ProductID", "Name"}

\* "7", "65536", "4294967296" and a text that is no number
Texts == {Digits(0, 7), Digits(1, 0), Digits(65536, 0), OtherText}

NextTokens ==
    {[type |-> "StartElement", name |-> n] : n \in ElementNames}
        \cup {[type |-> "CharData", text |-> t] : t \in Texts}
        \cup {[type |-> "EndElement", name |-> open[Len(open)]]}

\* dec.Token() returns a token, and the innermost decoder handles it
Token ==
    /\ pc = "UnmarshalXML"
    /\ ret = Nil
    /\ pos < MaxTokens
    /\ \E tok \in NextTokens :
          LET out == UnmarshalXML(Top, tok, pos + 1)
          IN  /\ open' = CASE tok.type = "StartElement" -> Append(open, tok.name)
                           [] tok.type = "EndElement" -> SubSeq(open, 1, Len(open) - 1)
                           [] OTHER -> open
              /\ CASE out.kind = "continue" ->
                          /\ stack' = [stack EXCEPT ![Len(stack)] = out.frame]
                          /\ ret' = Nil
                   [] out.kind = "call" ->
                          /\ stack' = Append(stack, out.callee)
                          /\ ret' = Nil
                   [] out.kind = "return" ->
                          /\ stack' = Pop
                          /\ ret' = Ptr([err |-> out.err, struct |-> Top.struct,
                                         value |-> Top.value])
    /\ pos' = pos + 1
    /\ UNCHANGED <<records, input, newRecords, i, pc, options, opts, geo,
                   moving, counter, divs, result>>

\* dec.Token() fails (the stream ends or is malformed): the innermost
\* decoder returns the error
TokenFails ==
    /\ pc = "UnmarshalXML"
    /\ ret = Nil
    /\ \E kind \in {"EOF", "SyntaxError"} :
          ret' = Ptr([err |-> [kind |-> kind, at |-> pos], struct |-> Top.struct,
                      value |-> Top.value])
    /\ stack' = Pop
    /\ UNCHANGED <<records, input, newRecords, i, pc, options, opts, geo,
                   moving, counter, divs, open, pos, result>>

\* an UnmarshalXML has returned: its caller goes on, or the outermost
\* caller has the result
Return ==
    /\ pc = "UnmarshalXML"
    /\ ret # Nil
    /\ IF stack = <<>>
       THEN /\ result' = ret
            /\ ret' = Nil
            /\ pc' = "done"
            /\ stack' = stack
       ELSE LET r == Deref(ret)
                out == AfterCall(Top, r.struct, r.value, r.err)
            IN  /\ IF out.kind = "return"
                   THEN /\ stack' = Pop
                        /\ ret' = Ptr([err |-> out.err, struct |-> Top.struct,
                                       value |-> Top.value])
                   ELSE /\ stack' = [stack EXCEPT ![Len(stack)] = out.frame]
                        /\ ret' = Nil
                /\ UNCHANGED <<pc, result>>
    /\ UNCHANGED <<records, input, newRecords, i, options, opts, geo, moving,
                   counter, divs, open, pos>>

InitDecoder ==
    /\ pc = "UnmarshalXML"
    /\ \E struct \in {"Application", "Build", "Device", "Version"} :
          /\ stack = <<Frame(struct, struct)>>
          /\ open = <<struct>>
    /\ pos = 0
    /\ ret = Nil
    /\ result = Nil
    /\ NoPreprocessor
    /\ moving = <<>>

NextDecoder == Token \/ TokenFails \/ Return

SpecDecoder == InitDecoder /\ [][NextDecoder]_vars

-----------------------------------------------------------------------------
(* Claims about the decoders *)

\* an UnmarshalXML has just returned an error to its caller
PendingError == ret # Nil /\ Deref(ret).err # NoError

\* no token has been read since the error arose
NoTokenSinceError ==
    /\ PendingError => Deref(ret).err.at = pos
    /\ (result # Nil /\ Deref(result).err # NoError) => Deref(result).err.at = pos

\* C9: when a numeric text does not parse in its width or reading a token
\* fails, the decoder returns the error without reading another token, and
\* so does every enclosing decoder, with the same error and without storing
\* the nested structure: its own structure is as it was when it made the call.
C9_ErrorPropagatesAtOnce ==
    /\ []NoTokenSinceError
    /\ [][PendingError =>
            /\ pos' = pos
            /\ IF stack = <<>>
               THEN result' = ret
               ELSE /\ stack' = Pop
                    /\ ret' # Nil
                    /\ Deref(ret').err = Deref(ret).err
                    /\ Deref(ret').struct = Top.struct
                    /\ Deref(ret').value = Top.value]_vars

\* Application.UnmarshalXML has returned a range error, which only a Version
\* inside its Build can raise, and Application.Build is unset
C9_Witness ==
    /\ pc = "done"
    /\ Deref(result).struct = "Application"
    /\ Deref(result).err.kind = "ErrRange"
    /\ Deref(result).err.at = 4
    /\ Deref(result).value.Build = Nil

====
